---- MODULE Spec2Model ----
(***************************************************************************)
(* Model of the knowledge-base tools of src/knowledge_tools.py:            *)
(* DocumentChunker, EmbeddingGenerator and the three tool functions        *)
(* index_document, search_knowledge_base and get_indexed_documents.        *)
(*                                                                         *)
(* Texts are kept run-length encoded: a text is a sequence of runs         *)
(* [c |-> kind, n |-> count], adjacent runs of different kind, so that     *)
(* documents of several thousand characters (CHUNK_SIZE_CHARS is 2000)     *)
(* stay small values.  Kind WS is whitespace, every other kind is a        *)
(* non-whitespace character.                                               *)
(***************************************************************************)
EXTENDS Integers, Sequences, FiniteSets, TLC

VARIABLES
    ckText,     \* chunker: the text handed to chunk_text
    ckCfg,      \* chunker: [chunk_size, overlap] of the DocumentChunker
    ckOut,      \* chunker: the list chunk_text returned
    ckPc,       \* chunker: "call" before chunk_text ran, "done" after; in the
                \* step-by-step specification the position in the code
    ckLoop,     \* chunker: the locals [start, chunk_idx] of chunk_text
    ckPrev,     \* chunker: the lists the calls of chunk_text returned so far
    emSelf,     \* embedder: the EmbeddingGenerator, [model, dimension]
    emTexts,    \* embedder: the texts handed to generate_batch_embeddings
    emTask,     \* embedder: the task_type handed to it
    emSvc,      \* embedder: what the embedding service answers, per request
    emOut,      \* embedder: what generate_batch_embeddings returned or raised
    emPc,       \* embedder: "call" before the call, "done" after
    dbDir,      \* TRUE when the directory KNOWLEDGE_DB_PATH exists
    documents,  \* the "documents" table: [exists, rows]
    ret,        \* what the last tool call returned, and what it was given
    hist,       \* history: was index_document ever called, and the record
                \* count of each source after each of its successful calls
    proc,       \* concurrent index_document calls: per call its position,
                \* its batch (data_for_db) and what it returned
    chat_history,   \* chat UI: st.session_state.chat_history
    user_id,        \* chat UI: st.session_state.user_id
    agent,          \* chat UI: st.session_state.agent, [user_id, tools]
    event           \* chat UI: what the last script run did

kbVars == <<dbDir, documents, ret, hist>>
ckVars == <<ckText, ckCfg, ckOut, ckPc, ckLoop, ckPrev>>
emVars == <<emSelf, emTexts, emTask, emSvc, emOut, emPc>>
ccVars == <<proc>>
uiVars == <<chat_history, user_id, agent, event>>
vars == <<ckVars, emVars, kbVars, ccVars, uiVars>>

(***************************************************************************)
(* Program constants                                                       *)
(***************************************************************************)
CHUNK_SIZE_CHARS == 2000
CHUNK_OVERLAP_CHARS == 200
EMBEDDING_DIMENSION == 768
MIN_CHUNK_CHARS == 100
MIN_TEXT_CHARS == 50
DISPLAY_CHARS == 500

TASK_TYPE_DOCUMENT == "RETRIEVAL_DOCUMENT"
TASK_TYPE_QUERY == "RETRIEVAL_QUERY"
EMBEDDING_MODEL == "gemini-embedding-001"

(***************************************************************************)
(* Bounds of the model                                                     *)
(***************************************************************************)
MaxRuns == 3
MaxBatch == 3
MaxRecords == 4
MaxResults == 2
MaxChunks == 16
MaxCalls == 2

(***************************************************************************)
(* Python str operations on run-length encoded texts                       *)
(***************************************************************************)
WS == " "

Run(c, n) == [c |-> c, n |-> n]

RECURSIVE StrLen(_)
\* len(text)
StrLen(t) == IF t = <<>> THEN 0 ELSE Head(t).n + StrLen(Tail(t))

RECURSIVE StrDrop(_, _)
\* text[k:]
StrDrop(t, k) ==
    IF k <= 0 \/ t = <<>> THEN t
    ELSE IF Head(t).n <= k THEN StrDrop(Tail(t), k - Head(t).n)
    ELSE <<Run(Head(t).c, Head(t).n - k)>> \o Tail(t)

RECURSIVE StrTake(_, _)
\* text[:k]
StrTake(t, k) ==
    IF k <= 0 \/ t = <<>> THEN <<>>
    ELSE IF Head(t).n <= k THEN <<Head(t)>> \o StrTake(Tail(t), k - Head(t).n)
    ELSE <<Run(Head(t).c, k)>>

\* a slice bound as Python reads it for a text of n characters: a negative
\* bound counts from the end, and both ends are clipped to 0..n
SliceBound(n, i) ==
    IF i < 0 THEN (IF i + n < 0 THEN 0 ELSE i + n)
    ELSE IF i > n THEN n ELSE i

\* text[a:b]
StrSlice(t, a, b) ==
    LET lo == SliceBound(StrLen(t), a)
        hi == SliceBound(StrLen(t), b)
    IN  StrTake(StrDrop(t, lo), hi - lo)

\* text.strip(): the whitespace at both ends removed
StrStrip(t) ==
    LET l == IF t # <<>> /\ Head(t).c = WS THEN Tail(t) ELSE t
    IN  IF l # <<>> /\ l[Len(l)].c = WS THEN SubSeq(l, 1, Len(l) - 1) ELSE l

(***************************************************************************)
(* DocumentChunker                                                         *)
(***************************************************************************)
RECURSIVE chunk_loop_no_overlap(_, _, _, _, _, _, _)
\* chunk_loop with the window advanced by chunk_size, the overlap forgotten
chunk_loop_no_overlap(text, source, chunk_size, overlap, start, chunk_idx, chunks) ==
    IF ~(start < StrLen(text)) THEN chunks
    ELSE LET end == start + chunk_size
             chunk_text_ == StrSlice(text, start, end)
         IN  IF StrLen(StrStrip(chunk_text_)) < MIN_CHUNK_CHARS THEN chunks
             ELSE chunk_loop_no_overlap(text, source, chunk_size, overlap,
                             start + chunk_size, chunk_idx + 1,
                             Append(chunks, [text |-> StrStrip(chunk_text_),
                                             source |-> source,
                                             chunk_index |-> chunk_idx,
                                             char_start |-> start,
                                             char_end |-> end]))

RECURSIVE chunk_loop_low_threshold(_, _, _, _, _, _, _)
\* chunk_loop with the tiny-chunk test made against the 50 of index_document
chunk_loop_low_threshold(text, source, chunk_size, overlap, start, chunk_idx, chunks) ==
    IF ~(start < StrLen(text)) THEN chunks
    ELSE LET end == start + chunk_size
             chunk_text_ == StrSlice(text, start, end)
         IN  IF StrLen(StrStrip(chunk_text_)) < MIN_TEXT_CHARS THEN chunks
             ELSE chunk_loop_low_threshold(text, source, chunk_size, overlap,
                             start + chunk_size - overlap, chunk_idx + 1,
                             Append(chunks, [text |-> StrStrip(chunk_text_),
                                             source |-> source,
                                             chunk_index |-> chunk_idx,
                                             char_start |-> start,
                                             char_end |-> end]))

RECURSIVE chunk_loop_index_from_one(_, _, _, _, _, _, _)
\* chunk_loop with chunk_idx incremented before the chunk is recorded
chunk_loop_index_from_one(text, source, chunk_size, overlap, start, chunk_idx, chunks) ==
    IF ~(start < StrLen(text)) THEN chunks
    ELSE LET end == start + chunk_size
             chunk_text_ == StrSlice(text, start, end)
         IN  IF StrLen(StrStrip(chunk_text_)) < MIN_CHUNK_CHARS THEN chunks
             ELSE chunk_loop_index_from_one(text, source, chunk_size, overlap,
                             start + chunk_size - overlap, chunk_idx + 1,
                             Append(chunks, [text |-> StrStrip(chunk_text_),
                                             source |-> source,
                                             chunk_index |-> chunk_idx + 1,
                                             char_start |-> start,
                                             char_end |-> end]))

RECURSIVE chunk_loop_untrimmed_test(_, _, _, _, _, _, _)
\* chunk_loop with the tiny-chunk test made on the window before trimming
chunk_loop_untrimmed_test(text, source, chunk_size, overlap, start, chunk_idx, chunks) ==
    IF ~(start < StrLen(text)) THEN chunks
    ELSE LET end == start + chunk_size
             chunk_text_ == StrSlice(text, start, end)
         IN  IF StrLen(chunk_text_) < MIN_CHUNK_CHARS THEN chunks
             ELSE chunk_loop_untrimmed_test(text, source, chunk_size, overlap,
                             start + chunk_size - overlap, chunk_idx + 1,
                             Append(chunks, [text |-> StrStrip(chunk_text_),
                                             source |-> source,
                                             chunk_index |-> chunk_idx,
                                             char_start |-> start,
                                             char_end |-> end]))

RECURSIVE chunk_loop_continue(_, _, _, _, _, _, _)
\* chunk_loop with "continue" for "break": a tiny window is skipped and the
\* scan goes on at the next offset
chunk_loop_continue(text, source, chunk_size, overlap, start, chunk_idx, chunks) ==
    IF ~(start < StrLen(text)) THEN chunks
    ELSE LET end == start + chunk_size
             chunk_text_ == StrSlice(text, start, end)
         IN  IF StrLen(StrStrip(chunk_text_)) < MIN_CHUNK_CHARS
             THEN chunk_loop_continue(text, source, chunk_size, overlap,
                                      start + chunk_size - overlap, chunk_idx, chunks)
             ELSE chunk_loop_continue(text, source, chunk_size, overlap,
                             start + chunk_size - overlap, chunk_idx + 1,
                             Append(chunks, [text |-> StrStrip(chunk_text_),
                                             source |-> source,
                                             chunk_index |-> chunk_idx,
                                             char_start |-> start,
                                             char_end |-> end]))

RECURSIVE chunk_loop(_, _, _, _, _, _, _)
\* the while loop of chunk_text, from (start, chunk_idx, chunks)
chunk_loop(text, source, chunk_size, overlap, start, chunk_idx, chunks) ==
    IF ~(start < StrLen(text)) THEN chunks
    ELSE LET end == start + chunk_size
             chunk_text_ == StrSlice(text, start, end)
         IN  IF StrLen(StrStrip(chunk_text_)) < MIN_CHUNK_CHARS THEN chunks
             ELSE chunk_loop(text, source, chunk_size, overlap,
                             start + chunk_size - overlap, chunk_idx + 1,
                             Append(chunks, [text |-> StrStrip(chunk_text_),
                                             source |-> source,
                                             chunk_index |-> chunk_idx,
                                             char_start |-> start,
                                             char_end |-> end]))

chunk_text(text, source, chunk_size, overlap) ==
    chunk_loop(text, source, chunk_size, overlap, 0, 0, <<>>)

(***************************************************************************)
(* Results of calls: a value returned, or an exception raised.  calls is   *)
(* the sequence of requests the call sent to the embedding service.        *)
(***************************************************************************)
Ret(v, calls) == [raised |-> FALSE, value |-> v, calls |-> calls]
Raise(cause, calls) == [raised |-> TRUE, cause |-> cause, calls |-> calls]

(***************************************************************************)
(* The embedding service, genai.embed_content.  It is outside the          *)
(* repository: svc gives, for each (content, task_type), what it answers   *)
(* during one operation: a failure (fail), or the first coordinate x of a  *)
(* vector whose other coordinates are 0.  A vector is [dim, x].            *)
(***************************************************************************)
SvcError == "EmbeddingServiceError"
SvcCoords == {0, 1}
SvcAnswers == {[fail |-> FALSE, x |-> c] : c \in SvcCoords} \cup {[fail |-> TRUE, x |-> 0]}

Vec(dim, x) == [dim |-> dim, x |-> x]

Request(model, content, task_type, output_dimensionality) ==
    [model |-> model, content |-> content, task_type |-> task_type,
     output_dimensionality |-> output_dimensionality]

embed_content(svc, model, content, task_type, output_dimensionality) ==
    LET req == Request(model, content, task_type, output_dimensionality)
        a == svc[<<content, task_type>>]
    IN  IF a.fail THEN Raise(SvcError, <<req>>)
        ELSE Ret([embedding |-> Vec(output_dimensionality, a.x)], <<req>>)

(***************************************************************************)
(* EmbeddingGenerator                                                      *)
(***************************************************************************)
EmbeddingGenerator(model, dimension) == [model |-> model, dimension |-> dimension]

generate_embedding(self, text, task_type, svc) ==
    LET result == embed_content(svc, self.model, text, task_type, self.dimension)
    IN  IF result.raised THEN result
        ELSE Ret(result.value.embedding, result.calls)

RECURSIVE batch_loop_default_task(_, _, _, _, _, _)
\* batch_loop calling generate_embedding(text), task_type left at its default
batch_loop_default_task(self, texts, task_type, svc, embeddings, calls) ==
    IF texts = <<>> THEN Ret(embeddings, calls)
    ELSE LET r == generate_embedding(self, Head(texts), TASK_TYPE_DOCUMENT, svc)
         IN  IF r.raised THEN Raise(r.cause, calls \o r.calls)
             ELSE batch_loop_default_task(self, Tail(texts), task_type, svc,
                                          Append(embeddings, r.value), calls \o r.calls)

RECURSIVE batch_loop_retry_once(_, _, _, _, _, _)
\* batch_loop sending a failed request a second time before it gives up
batch_loop_retry_once(self, texts, task_type, svc, embeddings, calls) ==
    IF texts = <<>> THEN Ret(embeddings, calls)
    ELSE LET first == generate_embedding(self, Head(texts), task_type, svc)
             again == generate_embedding(self, Head(texts), task_type, svc)
             r == IF first.raised
                  THEN [again EXCEPT !.calls = first.calls \o again.calls]
                  ELSE first
         IN  IF r.raised THEN Raise(r.cause, calls \o r.calls)
             ELSE batch_loop_retry_once(self, Tail(texts), task_type, svc,
                                        Append(embeddings, r.value), calls \o r.calls)

RECURSIVE batch_loop(_, _, _, _, _, _)
\* the for loop of generate_batch_embeddings over the remaining texts
batch_loop(self, texts, task_type, svc, embeddings, calls) ==
    IF texts = <<>> THEN Ret(embeddings, calls)
    ELSE LET r == generate_embedding(self, Head(texts), task_type, svc)
         IN  IF r.raised THEN Raise(r.cause, calls \o r.calls)
             ELSE batch_loop(self, Tail(texts), task_type, svc,
                             Append(embeddings, r.value), calls \o r.calls)

generate_batch_embeddings(self, texts, task_type, svc) ==
    batch_loop(self, texts, task_type, svc, <<>>, <<>>)

(***************************************************************************)
(* Paths (pathlib.Path): a path is its sequence of components, an absolute *)
(* one starts with "/".  Files is the file system: the text MarkItDown     *)
(* extracts from each existing file.                                       *)
(***************************************************************************)
Cwd == <<"/", "cwd">>

\* Path.absolute()
Absolute(path) == IF path[1] = "/" THEN path ELSE Cwd \o path

\* Path.name
Name(path) == path[Len(path)]

Files ==
    (Cwd \o <<"blank.txt">>) :> <<Run(WS, 49), Run("a", 49), Run(WS, 100)>> @@
    (Cwd \o <<"note.txt">>)  :> <<Run("a", 99)>> @@
    (Cwd \o <<"one.txt">>)   :> <<Run(WS, 1), Run("a", 150), Run(WS, 1)>> @@
    (Cwd \o <<"two.txt">>)   :> <<Run("b", 2300)>>

\* Path.exists()
PathExists(path) == Absolute(path) \in DOMAIN Files

\* MarkItDown().convert(path).text_content: the converter is outside the
\* repository and may fail
md_convert(path, fault) ==
    IF fault = "convert" THEN Raise("ConversionError", <<>>)
    ELSE Ret(Files[path], <<>>)

(***************************************************************************)
(* LanceDB, as the tools use it.  fault names the one call to the          *)
(* converter or to the storage engine that fails during the operation,     *)
(* "none" when none does.                                                  *)
(***************************************************************************)
NoTable == [exists |-> FALSE, rows |-> <<>>]

\* lancedb.connect(KNOWLEDGE_DB_PATH): creates the directory when missing
connect(dir, fault) ==
    IF fault = "connect" THEN Raise("StorageError: connect", <<>>)
    ELSE Ret(TRUE, <<>>)

\* db.open_table("documents")
open_table(tbl, fault) ==
    IF ~tbl.exists THEN Raise("Table documents was not found", <<>>)
    ELSE IF fault = "open_table" THEN Raise("StorageError: open_table", <<>>)
    ELSE Ret(tbl, <<>>)

\* table.add(data): the rows appended
table_add(tbl, data, fault) ==
    IF fault = "add" THEN Raise("StorageError: add", <<>>)
    ELSE IF \E i \in 1..Len(data) : \E j \in 1..Len(tbl.rows) :
                data[i].vector.dim # tbl.rows[j].vector.dim
         THEN Raise("SchemaError: vector dimension", <<>>)
    ELSE Ret([exists |-> TRUE, rows |-> tbl.rows \o data], <<>>)

\* db.create_table("documents", data=data) with mode="overwrite"
create_table_overwrite(tbl, data, fault) ==
    IF fault = "create_table" THEN Raise("StorageError: create_table", <<>>)
    ELSE Ret([exists |-> TRUE, rows |-> data], <<>>)

\* db.create_table("documents", data=data): the default mode "create"
\* refuses an existing table
create_table(tbl, data, fault) ==
    IF tbl.exists THEN Raise("Table documents already exists", <<>>)
    ELSE IF fault = "create_table" THEN Raise("StorageError: create_table", <<>>)
    ELSE Ret([exists |-> TRUE, rows |-> data], <<>>)

\* squared L2 distance of two vectors that are 0 outside their first coordinate
Distance(v, w) == (v.x - w.x) * (v.x - w.x)

\* row i comes before row j in the answer to query vector q; rows at the same
\* distance come in the order tie chooses
Before(rows, q, tie, i, j) ==
    LET di == Distance(rows[i].vector, q)
        dj == Distance(rows[j].vector, q)
    IN  \/ di < dj
        \/ di = dj /\ (IF tie = "asc" THEN i < j ELSE i > j)

RECURSIVE Nearest(_, _, _, _, _)
\* the k rows among todo nearest to q, nearest first
Nearest(rows, q, tie, todo, k) ==
    IF k <= 0 \/ todo = {} THEN <<>>
    ELSE LET i == CHOOSE x \in todo : \A y \in todo \ {x} : Before(rows, q, tie, x, y)
         IN  <<[row |-> rows[i], distance |-> Distance(rows[i].vector, q)]>>
                \o Nearest(rows, q, tie, todo \ {i}, k - 1)

RECURSIVE Farthest(_, _, _, _, _)
\* the k rows among todo farthest from q, farthest first
Farthest(rows, q, tie, todo, k) ==
    IF k <= 0 \/ todo = {} THEN <<>>
    ELSE LET i == CHOOSE x \in todo : \A y \in todo \ {x} : Before(rows, q, tie, y, x)
         IN  <<[row |-> rows[i], distance |-> Distance(rows[i].vector, q)]>>
                \o Farthest(rows, q, tie, todo \ {i}, k - 1)

\* table.search(q).limit(k).to_list(), ranked by similarity descending
table_search_descending_distance(tbl, q, k, tie, fault) ==
    IF fault = "search" THEN Raise("StorageError: search", <<>>)
    ELSE IF \E j \in 1..Len(tbl.rows) : tbl.rows[j].vector.dim # q.dim
         THEN Raise("SchemaError: query vector dimension", <<>>)
    ELSE Ret(Farthest(tbl.rows, q, tie, 1..Len(tbl.rows), k), <<>>)

\* table.search(q).to_list() with limit(k) left out: every row, nearest first
table_search_unlimited(tbl, q, k, tie, fault) ==
    IF fault = "search" THEN Raise("StorageError: search", <<>>)
    ELSE IF \E j \in 1..Len(tbl.rows) : tbl.rows[j].vector.dim # q.dim
         THEN Raise("SchemaError: query vector dimension", <<>>)
    ELSE Ret(Nearest(tbl.rows, q, tie, 1..Len(tbl.rows), Len(tbl.rows)), <<>>)

\* table.search(q).limit(k).to_list(): the k nearest rows, nearest first
table_search(tbl, q, k, tie, fault) ==
    IF fault = "search" THEN Raise("StorageError: search", <<>>)
    ELSE IF \E j \in 1..Len(tbl.rows) : tbl.rows[j].vector.dim # q.dim
         THEN Raise("SchemaError: query vector dimension", <<>>)
    ELSE Ret(Nearest(tbl.rows, q, tie, 1..Len(tbl.rows), k), <<>>)

\* table.to_pandas()
to_pandas(tbl, fault) ==
    IF fault = "to_pandas" THEN Raise("StorageError: to_pandas", <<>>)
    ELSE Ret(tbl.rows, <<>>)

(***************************************************************************)
(* The tool functions.  Each returns [ret, dbDir, documents]: the outcome  *)
(* handed to the caller and the storage it leaves.  An outcome is the      *)
(* returned string by its parts: kind names the return statement taken.    *)
(***************************************************************************)
NoVec == Vec(0, 0)

Outcome(op, kind) ==
    [op |-> op, kind |-> kind, cause |-> "", file |-> <<>>, n |-> 0,
     query |-> <<>>, num_results |-> 0, query_embedding |-> NoVec,
     results |-> <<>>, entries |-> <<>>, total |-> 0, docs |-> <<>>,
     calls |-> <<>>, written |-> <<>>, answers |-> <<>>]

Leave(st, out) == [ret |-> out, dbDir |-> st.dbDir, documents |-> st.documents]

\* a read tool answering a missing collection as index_document does, by
\* creating it
Connected_create_fallback(db, st, out) ==
    [ret |-> out, dbDir |-> db.value, documents |-> [exists |-> TRUE, rows |-> <<>>]]

\* a return after lancedb.connect succeeded and db.open_table failed: the
\* directory is there, the collection is as it was
Connected(db, st, out) == [ret |-> out, dbDir |-> db.value, documents |-> st.documents]

\* a return after db.open_table succeeded: the collection is what the handle
\* refers to
Opened(db, table, out) == [ret |-> out, dbDir |-> db.value, documents |-> table.value]

\* the outer handler raising the exception again instead of returning
except_Exception_reraise(out, e) == [out EXCEPT !.kind = "raised", !.cause = e]

\* the outer "except Exception as e" of each tool: the error string, with
\* str(e), is returned
except_Exception(out, e) == [out EXCEPT !.kind = "error", !.cause = e]

\* the db_path.exists() test left out: the tool always goes on
kb_missing_unchecked(dir) == FALSE

\* not db_path.exists()
kb_missing(dir) == ~dir

\* lines 176-181 with the rows of a source already stored replaced
store_documents_replace_source(tbl, data, fault) ==
    LET opened == open_table(tbl, fault)
        kept == SelectSeq(tbl.rows, LAMBDA r : \A i \in 1..Len(data) : r.source # data[i].source)
        added == table_add([exists |-> TRUE, rows |-> kept], data, fault)
    IN  IF ~opened.raised /\ ~added.raised THEN added
        ELSE create_table(tbl, data, fault)

\* lines 176-178 alone: open_table and add, without the fallback of 179-181
store_documents_no_create(tbl, data, fault) ==
    LET opened == open_table(tbl, fault)
    IN  IF opened.raised THEN opened ELSE table_add(opened.value, data, fault)

\* lines 176-181: try open_table and add, except create_table
store_documents(tbl, data, fault) ==
    LET opened == open_table(tbl, fault)
        added == table_add(opened.value, data, fault)
    IN  IF ~opened.raised /\ ~added.raised THEN added
        ELSE create_table(tbl, data, fault)

\* line 145 with the length taken before trimming
too_short_untrimmed(text_content) ==
    text_content = <<>> \/ StrLen(text_content) < MIN_TEXT_CHARS

\* line 145: not text_content or len(text_content.strip()) < 50
too_short(text_content) ==
    text_content = <<>> \/ StrLen(StrStrip(text_content)) < MIN_TEXT_CHARS

\* lines 161-170 with the embeddings taken from the end of the list
zip_records_reversed(chunks, embeddings) ==
    LET n == IF Len(chunks) <= Len(embeddings)
             THEN Len(chunks) ELSE Len(embeddings)
    IN  [i \in 1..n |->
            [text |-> chunks[i].text,
             vector |-> embeddings[Len(embeddings) + 1 - i],
             source |-> chunks[i].source,
             chunk_index |-> chunks[i].chunk_index,
             char_start |-> chunks[i].char_start,
             char_end |-> chunks[i].char_end]]

\* lines 161-170: one record per pair of zip(chunks, embeddings)
zip_records(chunks, embeddings) ==
    LET n == IF Len(chunks) <= Len(embeddings)
             THEN Len(chunks) ELSE Len(embeddings)
    IN  [i \in 1..n |->
            [text |-> chunks[i].text,
             vector |-> embeddings[i],
             source |-> chunks[i].source,
             chunk_index |-> chunks[i].chunk_index,
             char_start |-> chunks[i].char_start,
             char_end |-> chunks[i].char_end]]

\* index_document with lancedb.connect moved up, before the conversion
index_document_connect_first(file_path, st, svc, fault) ==
    LET op == [Outcome("index_document", "error") EXCEPT !.file = file_path]
        path == file_path
    IN
    IF ~PathExists(path) THEN Leave(st, [op EXCEPT !.kind = "file_missing"])
    ELSE
    LET db == connect(st.dbDir, fault) IN
    IF db.raised THEN Leave(st, except_Exception(op, db.cause))
    ELSE
    LET made == [dbDir |-> db.value, documents |-> st.documents] IN
    LET result == md_convert(Absolute(path), fault) IN
    IF result.raised THEN Leave(made, except_Exception(op, result.cause))
    ELSE
    LET text_content == result.value IN
    IF too_short(text_content)
    THEN Leave(made, [op EXCEPT !.kind = "no_text"])
    ELSE
    LET chunks == chunk_text(text_content, Absolute(path),
                             CHUNK_SIZE_CHARS, CHUNK_OVERLAP_CHARS) IN
    IF chunks = <<>> THEN Leave(made, [op EXCEPT !.kind = "no_chunks"])
    ELSE
    LET embedder == EmbeddingGenerator(EMBEDDING_MODEL, EMBEDDING_DIMENSION)
        chunk_texts == [i \in 1..Len(chunks) |-> chunks[i].text]
        embeddings == generate_batch_embeddings(embedder, chunk_texts,
                                                TASK_TYPE_DOCUMENT, svc)
    IN
    IF embeddings.raised
    THEN Leave(made, except_Exception([op EXCEPT !.calls = embeddings.calls],
                               embeddings.cause))
    ELSE
    LET data_for_db == zip_records(chunks, embeddings.value)
        called == [op EXCEPT !.calls = embeddings.calls]
    IN
    LET table == store_documents(st.documents, data_for_db, fault) IN
    IF table.raised
    THEN [ret |-> except_Exception(called, table.cause),
          dbDir |-> db.value, documents |-> st.documents]
    ELSE [ret |-> [called EXCEPT !.kind = "ok", !.n = Len(chunks),
                                 !.written = data_for_db],
          dbDir |-> db.value, documents |-> table.value]

index_document(file_path, st, svc, fault) ==
    LET op == [Outcome("index_document", "error") EXCEPT !.file = file_path]
        path == file_path
    IN
    IF ~PathExists(path) THEN Leave(st, [op EXCEPT !.kind = "file_missing"])
    ELSE
    LET result == md_convert(Absolute(path), fault) IN
    IF result.raised THEN Leave(st, except_Exception(op, result.cause))
    ELSE
    LET text_content == result.value IN
    IF too_short(text_content)
    THEN Leave(st, [op EXCEPT !.kind = "no_text"])
    ELSE
    LET chunks == chunk_text(text_content, Absolute(path),
                             CHUNK_SIZE_CHARS, CHUNK_OVERLAP_CHARS) IN
    IF chunks = <<>> THEN Leave(st, [op EXCEPT !.kind = "no_chunks"])
    ELSE
    LET embedder == EmbeddingGenerator(EMBEDDING_MODEL, EMBEDDING_DIMENSION)
        chunk_texts == [i \in 1..Len(chunks) |-> chunks[i].text]
        embeddings == generate_batch_embeddings(embedder, chunk_texts,
                                                TASK_TYPE_DOCUMENT, svc)
    IN
    IF embeddings.raised
    THEN Leave(st, except_Exception([op EXCEPT !.calls = embeddings.calls],
                               embeddings.cause))
    ELSE
    LET data_for_db == zip_records(chunks, embeddings.value)
        db == connect(st.dbDir, fault)
        called == [op EXCEPT !.calls = embeddings.calls]
    IN
    IF db.raised THEN Leave(st, except_Exception(called, db.cause))
    ELSE
    LET table == store_documents(st.documents, data_for_db, fault) IN
    IF table.raised
    THEN [ret |-> except_Exception(called, table.cause),
          dbDir |-> db.value, documents |-> st.documents]
    ELSE [ret |-> [called EXCEPT !.kind = "ok", !.n = Len(chunks),
                                 !.written = data_for_db],
          dbDir |-> db.value, documents |-> table.value]

\* lines 229-237 with the marker test written >= 500
FormatResults_marker_at_500(results) ==
    [i \in 1..Len(results) |->
        [i |-> i,
         source |-> Name(results[i].row.source),
         chunk_idx |-> results[i].row.chunk_index,
         text |-> StrTake(results[i].row.text, DISPLAY_CHARS),
         truncated |-> StrLen(results[i].row.text) >= DISPLAY_CHARS]]

\* lines 229-237: one displayed entry per result
FormatResults(results) ==
    [i \in 1..Len(results) |->
        [i |-> i,
         source |-> Name(results[i].row.source),
         chunk_idx |-> results[i].row.chunk_index,
         text |-> StrTake(results[i].row.text, DISPLAY_CHARS),
         truncated |-> StrLen(results[i].row.text) > DISPLAY_CHARS]]

search_knowledge_base(query, num_results, st, svc, fault, tie) ==
    LET op == [Outcome("search_knowledge_base", "error") EXCEPT
                    !.query = query, !.num_results = num_results]
    IN
    IF kb_missing(st.dbDir) THEN Leave(st, [op EXCEPT !.kind = "kb_not_found"])
    ELSE
    LET embedder == EmbeddingGenerator(EMBEDDING_MODEL, EMBEDDING_DIMENSION)
        query_embedding == generate_embedding(embedder, query, TASK_TYPE_QUERY, svc)
    IN
    IF query_embedding.raised
    THEN Leave(st, except_Exception([op EXCEPT !.calls = query_embedding.calls],
                                    query_embedding.cause))
    ELSE
    LET embedded == [op EXCEPT !.calls = query_embedding.calls,
                               !.query_embedding = query_embedding.value]
        db == connect(st.dbDir, fault)
    IN
    IF db.raised THEN Leave(st, except_Exception(embedded, db.cause))
    ELSE
    LET table == open_table(st.documents, fault) IN
    IF table.raised THEN Connected(db, st, [embedded EXCEPT !.kind = "no_documents"])
    ELSE
    LET results == table_search(table.value, query_embedding.value,
                                num_results, tie, fault) IN
    IF results.raised THEN Opened(db, table, except_Exception(embedded, results.cause))
    ELSE IF results.value = <<>> THEN Opened(db, table, [embedded EXCEPT !.kind = "no_results"])
    ELSE Opened(db, table, [embedded EXCEPT !.kind = "found",
                                    !.results = results.value,
                                    !.entries = FormatResults(results.value)])

RECURSIVE Unique(_)
\* all_data['source'].unique(): the sources in order of first appearance
Unique(rows) ==
    IF rows = <<>> THEN <<>>
    ELSE LET init == Unique(SubSeq(rows, 1, Len(rows) - 1))
             last == rows[Len(rows)].source
         IN  IF \E i \in 1..Len(init) : init[i] = last THEN init ELSE Append(init, last)

\* len(all_data[all_data['source'] == source])
CountOf(rows, source) == Len(SelectSeq(rows, LAMBDA r : r.source = source))

\* get_indexed_documents with the inner except reporting the failure
get_indexed_documents_inner_error(st, fault) ==
    LET op == Outcome("get_indexed_documents", "error") IN
    IF kb_missing(st.dbDir) THEN Leave(st, [op EXCEPT !.kind = "empty"])
    ELSE
    LET db == connect(st.dbDir, fault) IN
    IF db.raised THEN Leave(st, except_Exception(op, db.cause))
    ELSE
    LET table == open_table(st.documents, fault) IN
    IF table.raised THEN Connected(db, st, except_Exception(op, table.cause))
    ELSE
    LET all_data == to_pandas(table.value, fault) IN
    IF all_data.raised THEN Opened(db, table, except_Exception(op, all_data.cause))
    ELSE
    LET sources == Unique(all_data.value) IN
    Opened(db, table, [op EXCEPT !.kind = "stats",
                         !.total = Len(all_data.value),
                         !.n = Len(sources),
                         !.docs = [i \in 1..Len(sources) |->
                                     [name |-> Name(sources[i]),
                                      chunks |-> CountOf(all_data.value, sources[i])]]])

get_indexed_documents(st, fault) ==
    LET op == Outcome("get_indexed_documents", "error") IN
    IF kb_missing(st.dbDir) THEN Leave(st, [op EXCEPT !.kind = "empty"])
    ELSE
    LET db == connect(st.dbDir, fault) IN
    IF db.raised THEN Leave(st, except_Exception(op, db.cause))
    ELSE
    LET table == open_table(st.documents, fault) IN
    IF table.raised THEN Connected(db, st, [op EXCEPT !.kind = "empty"])
    ELSE
    LET all_data == to_pandas(table.value, fault) IN
    IF all_data.raised THEN Opened(db, table, [op EXCEPT !.kind = "empty"])
    ELSE
    LET sources == Unique(all_data.value) IN
    Opened(db, table, [op EXCEPT !.kind = "stats",
                         !.total = Len(all_data.value),
                         !.n = Len(sources),
                         !.docs = [i \in 1..Len(sources) |->
                                     [name |-> Name(sources[i]),
                                      chunks |-> CountOf(all_data.value, sources[i])]]])

(***************************************************************************)
(* Two index_document calls running at the same time (two sessions of the  *)
(* chat UI share KNOWLEDGE_DB_PATH)                                        *)
(***************************************************************************)
Procs == {"A", "B"}

\* found: did the call's open_table find the collection
ProcIdle ==
    [pc |-> "idle", data |-> <<>>, found |-> FALSE, out |-> Outcome("none", "none")]

(***************************************************************************)
(* The chat UI of src/app.py: the session state the claims are about       *)
(***************************************************************************)
MAX_HISTORY_LENGTH == 10
COMPRESS_KEEP_RECENT == 4

\* the tools of the agent made at session start
SessionTools ==
    <<"list_directory_contents", "read_file_content", "search_files_by_name",
      "search_in_files", "get_file_info", "read_document_content",
      "ReasoningTools", "index_document", "search_knowledge_base",
      "get_indexed_documents">>

\* the tools of the agent made again when the user ID changes
UserChangeTools ==
    <<"list_directory_contents", "read_file_content", "search_files_by_name",
      "search_in_files", "get_file_info", "read_document_content">>

\* Agent(name=..., user_id=..., tools=[...], ...)
Agent(uid, tools) == [name |-> "LocalFileAssistant", user_id |-> uid, tools |-> tools]

\* a_list[a:b]
ListSlice(l, a, b) ==
    LET lo == SliceBound(Len(l), a)
        hi == SliceBound(Len(l), b)
    IN  SubSeq(l, lo + 1, hi)

\* compress_chat_history keeping the first keep_recent messages
compress_chat_history_keeps_first(summary_response, chat_history_, max_length, keep_recent) ==
    IF Len(chat_history_) <= max_length THEN chat_history_
    ELSE IF summary_response.raised THEN chat_history_
    ELSE <<[role |-> "summary", content |-> summary_response.value,
            is_summary |-> TRUE]>>
         \o ListSlice(chat_history_, 0, keep_recent)

\* compress_chat_history; summary_response is what agent.run gives for the
\* summary prompt: a response, or an exception
compress_chat_history(summary_response, chat_history_, max_length, keep_recent) ==
    IF Len(chat_history_) <= max_length THEN chat_history_
    ELSE
    LET old_messages == ListSlice(chat_history_, 0, Len(chat_history_) - keep_recent)
        recent_messages == ListSlice(chat_history_, Len(chat_history_) - keep_recent,
                                     Len(chat_history_))
    IN  IF summary_response.raised THEN chat_history_
        ELSE LET summary_msg == [role |-> "summary",
                                 content |-> summary_response.value,
                                 is_summary |-> TRUE]
             IN  <<summary_msg>> \o recent_messages

(***************************************************************************)
(* Inputs of the chunker specification                                     *)
(***************************************************************************)
Kinds == {WS, "a"}
RunLens == {1, 49, 99, 100, 200, 1700, 1800, 1900, 2000, 3600}

\* texts of at most MaxRuns runs, adjacent runs of different kind
RunSeqs == UNION {[1..k -> Kinds \X RunLens] : k \in 0..MaxRuns}
Texts == {[i \in 1..Len(s) |-> Run(s[i][1], s[i][2])] :
            s \in {q \in RunSeqs : \A i \in 1..(Len(q) - 1) : q[i][1] # q[i + 1][1]}}

Configs == {[chunk_size |-> CHUNK_SIZE_CHARS, overlap |-> CHUNK_OVERLAP_CHARS],
            [chunk_size |-> 300, overlap |-> 100],
            [chunk_size |-> 150, overlap |-> 0]}

CkSource == <<"/", "cwd", "doc.txt">>

ChunkerIdle ==
    /\ ckText = <<>>
    /\ ckCfg = [chunk_size |-> CHUNK_SIZE_CHARS, overlap |-> CHUNK_OVERLAP_CHARS]
    /\ ckOut = <<>>
    /\ ckPc = "idle"
    /\ ckLoop = [start |-> 0, chunk_idx |-> 0]
    /\ ckPrev = <<>>

EmbedderIdle ==
    /\ emSelf = EmbeddingGenerator(EMBEDDING_MODEL, EMBEDDING_DIMENSION)
    /\ emTexts = <<>>
    /\ emTask = TASK_TYPE_DOCUMENT
    /\ emSvc = <<>>
    /\ emOut = <<>>
    /\ emPc = "idle"

KbIdle ==
    /\ dbDir = FALSE
    /\ documents = NoTable
    /\ ret = Outcome("none", "none")
    /\ hist = [called |-> FALSE, ok |-> [f \in DOMAIN Files |-> <<>>]]

ConcIdle == proc = [p \in Procs |-> ProcIdle]

UiIdle ==
    /\ chat_history = <<>>
    /\ user_id = "user_fenil"
    /\ agent = Agent("user_fenil", SessionTools)
    /\ event = [kind |-> "start"]

ChunkerInit ==
    /\ EmbedderIdle
    /\ KbIdle
    /\ ConcIdle
    /\ UiIdle
    /\ ckText \in Texts
    /\ ckCfg \in Configs
    /\ ckOut = <<>>
    /\ ckPc = "call"
    /\ ckLoop = [start |-> 0, chunk_idx |-> 0]
    /\ ckPrev = <<>>

ChunkText ==
    /\ ckPc = "call"
    /\ ckOut' = chunk_text(ckText, CkSource, ckCfg.chunk_size, ckCfg.overlap)
    /\ ckPc' = "done"
    /\ UNCHANGED <<ckText, ckCfg, ckLoop, ckPrev, emVars, kbVars, ccVars, uiVars>>

ChunkerNext == ChunkText

SpecChunker == ChunkerInit /\ [][ChunkerNext]_vars

(***************************************************************************)
(* Properties of the chunker (SpecChunker)                                  *)
(***************************************************************************)
CkDefault ==
    /\ ckCfg.chunk_size = CHUNK_SIZE_CHARS
    /\ ckCfg.overlap = CHUNK_OVERLAP_CHARS

CkStep == ckCfg.chunk_size - ckCfg.overlap

\* the window chunk_text cuts at offset start, trimmed
CkWindow(start) == StrStrip(StrSlice(ckText, start, start + ckCfg.chunk_size))

\* no window that starts inside the text is below the minimum-content cutoff
CkNoCutoff ==
    \A k \in 0..(StrLen(ckText) \div CkStep) :
        k * CkStep < StrLen(ckText) => StrLen(CkWindow(k * CkStep)) >= MIN_CHUNK_CHARS

\* C6 as stated: with chunk_size 2000 and overlap 200, a text of length
\* L >= 2000 yields floor((L - 2000) / 1800) + 1 chunks.
C6_Original ==
    (ckPc = "done" /\ CkDefault /\ StrLen(ckText) >= 2000)
        => Len(ckOut) = ((StrLen(ckText) - 2000) \div 1800) + 1

\* C6 amended: with chunk_size 2000 and overlap 200, a text of length
\* L >= 2000 yields at most floor((L - 1) / 1800) + 1 chunks, one per window
\* start below L, and exactly that many when no window is cut off for low
\* content; floor((L - 2000) / 1800) + 1 counts only the windows that lie
\* wholly inside the text, which are then all emitted.
C6_ChunkCount ==
    (ckPc = "done" /\ CkDefault /\ StrLen(ckText) >= 2000)
        => /\ Len(ckOut) <= ((StrLen(ckText) - 1) \div 1800) + 1
           /\ CkNoCutoff =>
                /\ Len(ckOut) = ((StrLen(ckText) - 1) \div 1800) + 1
                /\ Cardinality({i \in 1..Len(ckOut) : ckOut[i].char_end <= StrLen(ckText)})
                       = ((StrLen(ckText) - 2000) \div 1800) + 1

C6_Witness ==
    /\ ckPc = "done" /\ CkDefault /\ StrLen(ckText) >= 2000 /\ CkNoCutoff
    /\ Len(ckOut) = 3
    /\ ((StrLen(ckText) - 2000) \div 1800) + 1 = 2

\* C7: a text shorter than the minimum-content threshold of 100 characters
\* yields no chunk, whatever the chunker's configuration.
C7_ShortTextNoChunks ==
    (ckPc = "done" /\ StrLen(ckText) < MIN_CHUNK_CHARS) => ckOut = <<>>

C7_Witness ==
    /\ ckPc = "done" /\ ckOut = <<>>
    /\ StrLen(ckText) = 99 /\ StrLen(StrStrip(ckText)) = 99

\* C8: the i-th chunk (from 0) has chunk_index i and char_start
\* i * (chunk_size - overlap).
C8_IndexAndStart ==
    ckPc = "done" =>
        \A i \in 1..Len(ckOut) :
            /\ ckOut[i].chunk_index = i - 1
            /\ ckOut[i].char_start = (i - 1) * (ckCfg.chunk_size - ckCfg.overlap)

C8_Witness ==
    /\ ckPc = "done" /\ Len(ckOut) >= 3
    /\ ckOut[3].chunk_index = 2
    /\ ckOut[3].char_start = 3600

\* C9: every chunk but possibly the last spans exactly chunk_size characters
\* (char_end - char_start), and every chunk, the last included, has trimmed
\* text of at least 100 characters.
C9_SpanAndContent ==
    ckPc = "done" =>
        /\ \A i \in 1..(Len(ckOut) - 1) :
                ckOut[i].char_end - ckOut[i].char_start = ckCfg.chunk_size
        /\ \A i \in 1..Len(ckOut) :
                StrLen(StrStrip(ckOut[i].text)) >= MIN_CHUNK_CHARS

C9_Witness ==
    /\ ckPc = "done" /\ Len(ckOut) >= 2
    /\ StrLen(ckOut[Len(ckOut)].text) < ckCfg.chunk_size
    /\ StrLen(ckOut[1].text) < ckCfg.chunk_size

\* C21: chunk_text stops at the first window whose trimmed length is below
\* 100 characters: the chunks are the windows before it, one per offset, that
\* window is not emitted and neither is any window at a later offset, even
\* one that holds 100 or more non-whitespace characters.
C21_CutoffStopsScan ==
    ckPc = "done" =>
        LET n == Len(ckOut) IN
        /\ \A i \in 1..n :
                /\ ckOut[i].char_start = (i - 1) * CkStep
                /\ ckOut[i].char_start < StrLen(ckText)
                /\ StrLen(CkWindow((i - 1) * CkStep)) >= 100
        /\ n * CkStep < StrLen(ckText) => StrLen(CkWindow(n * CkStep)) < 100

C21_Witness ==
    /\ ckPc = "done" /\ Len(ckOut) = 1
    /\ CkStep < StrLen(ckText) /\ StrLen(CkWindow(CkStep)) < 100
    /\ \E k \in 2..(StrLen(ckText) \div CkStep) :
            /\ k * CkStep < StrLen(ckText)
            /\ StrLen(CkWindow(k * CkStep)) >= 100

\* C25 as stated: the range recorded with every chunk lies inside the
\* document and describes the chunk: 0 <= char_start < char_end <= len(text),
\* and the chunk's text is text[char_start:char_end], trimmed.
C25_Original ==
    ckPc = "done" =>
        \A i \in 1..Len(ckOut) :
            /\ 0 <= ckOut[i].char_start
            /\ ckOut[i].char_start < ckOut[i].char_end
            /\ ckOut[i].char_end <= StrLen(ckText)
            /\ ckOut[i].text
                    = StrStrip(StrSlice(ckText, ckOut[i].char_start, ckOut[i].char_end))

(***************************************************************************)
(* The embedder specification: generate_batch_embeddings applied to every  *)
(* batch of at most MaxBatch texts, under every service                    *)
(***************************************************************************)
EmContents == {<<Run("a", 150)>>, <<Run("b", 150)>>}
TaskTypes == {TASK_TYPE_DOCUMENT, TASK_TYPE_QUERY}

EmbedderInit ==
    /\ ChunkerIdle
    /\ KbIdle
    /\ ConcIdle
    /\ UiIdle
    /\ emSelf \in {EmbeddingGenerator(EMBEDDING_MODEL, EMBEDDING_DIMENSION),
                   EmbeddingGenerator(EMBEDDING_MODEL, 256)}
    /\ emTexts \in UNION {[1..k -> EmContents] : k \in 0..MaxBatch}
    /\ emTask \in TaskTypes
    /\ emSvc \in [EmContents \X TaskTypes -> SvcAnswers]
    /\ emOut = <<>>
    /\ emPc = "call"

GenerateBatch ==
    /\ emPc = "call"
    /\ emOut' = generate_batch_embeddings(emSelf, emTexts, emTask, emSvc)
    /\ emPc' = "done"
    /\ UNCHANGED <<emSelf, emTexts, emTask, emSvc, ckVars, kbVars, ccVars, uiVars>>

EmbedderNext == GenerateBatch

SpecEmbedder == EmbedderInit /\ [][EmbedderNext]_vars

(***************************************************************************)
(* Properties of the embedder (SpecEmbedder)                               *)
(***************************************************************************)
EmSingle(i) == generate_embedding(emSelf, emTexts[i], emTask, emSvc)

\* C10: generate_batch_embeddings(texts, task_type) returns len(texts)
\* vectors in input order, the i-th being what generate_embedding returns for
\* texts[i] with the same task_type, each of the configured dimension; it
\* raises only when one of those single calls raises.
C10_BatchIsPointwise ==
    emPc = "done" =>
        IF \E i \in 1..Len(emTexts) : EmSingle(i).raised
        THEN emOut.raised
        ELSE /\ ~emOut.raised
             /\ Len(emOut.value) = Len(emTexts)
             /\ \A i \in 1..Len(emTexts) :
                    /\ emOut.value[i] = EmSingle(i).value
                    /\ emOut.value[i].dim = emSelf.dimension

C10_Witness ==
    /\ emPc = "done" /\ ~emOut.raised
    /\ Len(emTexts) = 3 /\ Len(emOut.value) = 3
    /\ emTask = TASK_TYPE_QUERY
    /\ emTexts[1] # emTexts[2]
    /\ emOut.value[1] # emOut.value[2]
    /\ emSvc[<<emTexts[1], TASK_TYPE_QUERY>>] # emSvc[<<emTexts[1], TASK_TYPE_DOCUMENT>>]

(***************************************************************************)
(* The knowledge-base specification: the three tools called in any order   *)
(* on a location that starts without a knowledge_db directory              *)
(***************************************************************************)
InputPaths ==
    {<<"one.txt">>, Cwd \o <<"one.txt">>, <<"two.txt">>, <<"note.txt">>,
     <<"blank.txt">>, <<"missing.txt">>}

Queries == {<<Run("a", 150)>>, <<Run("c", 20)>>}

IndexFaults == {"none", "convert", "connect", "open_table", "add", "create_table"}
SearchFaults == {"none", "connect", "open_table", "search"}
InventoryFaults == {"none", "connect", "open_table", "to_pandas"}

\* the requests index_document can send for file_path
IndexKeys(file_path) ==
    IF ~PathExists(file_path) THEN {}
    ELSE LET chunks == chunk_text(Files[Absolute(file_path)], Absolute(file_path),
                                  CHUNK_SIZE_CHARS, CHUNK_OVERLAP_CHARS)
         IN  {<<chunks[i].text, TASK_TYPE_DOCUMENT>> : i \in 1..Len(chunks)}

Init ==
    /\ ChunkerIdle
    /\ EmbedderIdle
    /\ KbIdle
    /\ ConcIdle
    /\ UiIdle

IndexDocument ==
    \E file_path \in InputPaths, fault \in IndexFaults :
    \E svc \in [IndexKeys(file_path) -> SvcAnswers] :
    \E r \in {index_document(file_path, [dbDir |-> dbDir, documents |-> documents],
                               svc, fault)} :
        LET source == Absolute(file_path)
        IN  /\ Len(r.documents.rows) <= MaxRecords
            /\ dbDir' = r.dbDir
            /\ documents' = r.documents
            /\ ret' = IF r.ret.kind = "ok" THEN [r.ret EXCEPT !.answers = svc]
                       ELSE r.ret
            /\ hist' = [called |-> TRUE,
                        ok |-> IF r.ret.kind = "ok"
                               THEN [hist.ok EXCEPT ![source] =
                                        Append(@, CountOf(r.documents.rows, source))]
                               ELSE hist.ok]
            /\ UNCHANGED <<ckVars, emVars, ccVars, uiVars>>

SearchKnowledgeBase ==
    \E query \in Queries, num_results \in 1..MaxResults, fault \in SearchFaults,
       tie \in {"asc", "desc"} :
    \E svc \in [{<<query, TASK_TYPE_QUERY>>} -> SvcAnswers] :
    \E r \in {search_knowledge_base(query, num_results,
                                      [dbDir |-> dbDir, documents |-> documents],
                                      svc, fault, tie)} :
        /\ dbDir' = r.dbDir
        /\ documents' = r.documents
        /\ ret' = r.ret
        /\ UNCHANGED <<hist, ckVars, emVars, ccVars, uiVars>>

GetIndexedDocuments ==
    \E fault \in InventoryFaults :
    \E r \in {get_indexed_documents([dbDir |-> dbDir, documents |-> documents], fault)} :
        /\ dbDir' = r.dbDir
        /\ documents' = r.documents
        /\ ret' = r.ret
        /\ UNCHANGED <<hist, ckVars, emVars, ccVars, uiVars>>

Next == IndexDocument \/ SearchKnowledgeBase \/ GetIndexedDocuments

Spec == Init /\ [][Next]_vars

(***************************************************************************)
(* Properties of the knowledge base (Spec)                                 *)
(***************************************************************************)
Indexed == "index_document"
Searched == "search_knowledge_base"
Listed == "get_indexed_documents"

OneTxt == Cwd \o <<"one.txt">>
TwoTxt == Cwd \o <<"two.txt">>

\* C1: the second successful index_document call on a path leaves, for that
\* source, exactly twice the records the first call left, and
\* get_indexed_documents then reports every source with the count its
\* successful calls add up to: the doubled count after two calls.
C1_DoubleIngestDoubles ==
    /\ \A src \in DOMAIN Files :
            Len(hist.ok[src]) >= 2 => hist.ok[src][2] = 2 * hist.ok[src][1]
    /\ (ret.op = Listed /\ ret.kind = "stats") =>
            \A src \in DOMAIN Files :
                Len(hist.ok[src]) >= 1 =>
                    \E i \in 1..Len(ret.docs) :
                        /\ ret.docs[i].name = Name(src)
                        /\ ret.docs[i].chunks = Len(hist.ok[src]) * hist.ok[src][1]

C1_Witness ==
    /\ ret.op = Listed /\ ret.kind = "stats"
    /\ hist.ok[TwoTxt] = <<2, 4>>
    /\ \E i \in 1..Len(ret.docs) :
            ret.docs[i].name = "two.txt" /\ ret.docs[i].chunks = 4

\* C2: search_knowledge_base, as long as index_document was never called,
\* returns the index-absent outcome, whatever the query and whatever the
\* embedding service or the storage engine would answer.
C2_SearchBeforeAnyIndex ==
    (ret.op = Searched /\ ~hist.called) => ret.kind = "kb_not_found"

C2_Witness ==
    /\ ret.op = Searched /\ ~hist.called
    /\ ret.kind = "kb_not_found"
    /\ ret.query = <<Run("a", 150)>>

\* C3 as stated: get_indexed_documents on an index that was never created
\* reports the empty state with zero sources, never the error outcome.
C3_Original ==
    (ret.op = Listed /\ ~documents.exists) =>
        ret.kind = "empty" /\ ret.docs = <<>> /\ ret.total = 0

\* C3 amended: get_indexed_documents on an index that was never created
\* reports the empty state with zero sources, or, when the storage directory
\* exists already and connecting to it fails, the error outcome; where no
\* directory exists it never reports an error.
C3_EmptyWhenNeverCreated ==
    (ret.op = Listed /\ ~documents.exists) =>
        /\ \/ ret.kind = "empty" /\ ret.docs = <<>> /\ ret.total = 0
           \/ dbDir /\ ret.kind = "error" /\ ret.cause = "StorageError: connect"
        /\ ~dbDir => ret.kind = "empty"

C3_Witness ==
    /\ ret.op = Listed /\ ~documents.exists /\ dbDir
    /\ ret.kind = "empty" /\ ret.docs = <<>>

\* C4: the "documents" table grows by append only: a step of any of the three
\* tools keeps every record of the table, unchanged and in place.
C4_AppendOnly ==
    [][documents.exists =>
          /\ documents'.exists
          /\ Len(documents'.rows) >= Len(documents.rows)
          /\ SubSeq(documents'.rows, 1, Len(documents.rows)) = documents.rows]_vars

C4_Witness ==
    /\ ret.op = Indexed /\ ret.kind = "ok"
    /\ Len(documents.rows) = 3 /\ ret.n = 1
    /\ documents.rows[1].source = TwoTxt

\* C5 as stated: a query whose text is the text of a stored chunk gets that
\* chunk as its top-ranked result: a record with that text is ranked first, or
\* ties with the record ranked first.
C5_Original ==
    (/\ ret.op = Searched /\ ret.kind = "found"
     /\ \E j \in 1..Len(documents.rows) : documents.rows[j].text = ret.query)
        => \E j \in 1..Len(documents.rows) :
                /\ documents.rows[j].text = ret.query
                /\ Distance(documents.rows[j].vector, ret.query_embedding)
                        = ret.results[1].distance

\* C5 amended: when the search returns a ranked list, its first result is a
\* stored record nearest to the query vector; a query whose text is the text
\* of a stored chunk gets that chunk first when the vector the service gives
\* for the query (QUERY mode) equals the vector stored with the chunk
\* (DOCUMENT mode) and no other stored record has that vector.
C5_RoundTrip ==
    (ret.op = Searched /\ ret.kind = "found") =>
        \A j \in 1..Len(documents.rows) :
            /\ ret.results[1].distance
                    <= Distance(documents.rows[j].vector, ret.query_embedding)
            /\ (/\ documents.rows[j].text = ret.query
                /\ documents.rows[j].vector = ret.query_embedding
                /\ \A i \in 1..Len(documents.rows) :
                        i # j => documents.rows[i].vector # ret.query_embedding)
                    => ret.results[1].row = documents.rows[j]

C5_Witness ==
    /\ ret.op = Searched /\ ret.kind = "found"
    /\ Len(documents.rows) = 3
    /\ documents.rows[3].text = ret.query
    /\ documents.rows[3].vector = ret.query_embedding
    /\ documents.rows[1].vector # ret.query_embedding
    /\ documents.rows[2].vector # ret.query_embedding
    /\ ret.results[1].row = documents.rows[3]

AbsentKinds == {"kb_not_found", "no_documents"}

\* C11 as stated: with the "documents" table in place, search_knowledge_base
\* returns the no-relevant-information outcome exactly when the search gave
\* zero rows and the ranked list otherwise, and it returns an index-absent
\* outcome only when the table was never created.
C11_Original ==
    (ret.op = Searched /\ documents.exists) =>
        /\ ret.kind \notin AbsentKinds
        /\ ret.kind # "error" =>
                /\ ret.kind = "no_results" <=> ret.results = <<>>
                /\ ret.kind = "found" <=> ret.results # <<>>

\* C12: a search with num_results = k that finds anything returns at most k
\* records, each a stored record with its distance to the query vector, in
\* order of non-decreasing distance (descending similarity), shown in that
\* order; every stored record nearer to the query than the last one returned
\* is among the returned ones, and fewer than k are returned only when the
\* table holds no more.
C12_RankedAtMostK ==
    (ret.op = Searched /\ ret.kind = "found") =>
        LET rows == documents.rows
            res == ret.results
            m == Len(res)
            d(j) == Distance(rows[j].vector, ret.query_embedding)
        IN  /\ m >= 1 /\ m <= ret.num_results
            /\ m < ret.num_results => m = Len(rows)
            /\ \A i \in 1..m :
                    /\ \E j \in 1..Len(rows) :
                            res[i].row = rows[j] /\ res[i].distance = d(j)
                    /\ Cardinality({h \in 1..m : res[h] = res[i]})
                            <= Cardinality({j \in 1..Len(rows) :
                                    rows[j] = res[i].row})
            /\ \A i \in 1..(m - 1) : res[i].distance <= res[i + 1].distance
            /\ Cardinality({j \in 1..Len(rows) : d(j) < res[m].distance})
                    = Cardinality({i \in 1..m : res[i].distance < res[m].distance})
            /\ Len(ret.entries) = m
            /\ \A i \in 1..m :
                    /\ ret.entries[i].i = i
                    /\ ret.entries[i].chunk_idx = res[i].row.chunk_index
                    /\ ret.entries[i].source = Name(res[i].row.source)

C12_Witness ==
    /\ ret.op = Searched /\ ret.kind = "found"
    /\ ret.num_results = 2 /\ Len(ret.results) = 2
    /\ Len(documents.rows) = 3
    /\ ret.results[1].distance < ret.results[2].distance
    /\ ret.results[1].row = documents.rows[3]
    /\ Distance(documents.rows[1].vector, ret.query_embedding)
            = ret.results[2].distance
    /\ Distance(documents.rows[2].vector, ret.query_embedding)
            = ret.results[2].distance

\* C13: every entry of a ranked list shows the first 500 characters of the
\* stored chunk text of its result (the whole text when that is shorter), and
\* carries the truncation marker exactly when the stored text is longer than
\* 500 characters.
C13_DisplayFirst500 ==
    (ret.op = Searched /\ ret.kind = "found") =>
        \A i \in 1..Len(ret.results) :
            LET stored == ret.results[i].row.text
                shown == ret.entries[i].text
            IN  /\ StrLen(shown) = IF StrLen(stored) > 500 THEN 500 ELSE StrLen(stored)
                /\ StrSlice(stored, 0, StrLen(shown)) = shown
                /\ ret.entries[i].truncated <=> StrLen(stored) > 500

C13_Witness ==
    /\ ret.op = Searched /\ ret.kind = "found" /\ Len(ret.results) = 2
    /\ \E i, j \in 1..2 :
            /\ StrLen(ret.results[i].row.text) = 2000
            /\ ret.entries[i].text = <<Run("b", 500)>>
            /\ ret.entries[i].truncated
            /\ StrLen(ret.results[j].row.text) = 500
            /\ ret.entries[j].text = ret.results[j].row.text
            /\ ~ret.entries[j].truncated

\* the files whose text has fewer than 50 characters after trimming, and
\* those whose first window of 2000 has fewer than 100 after trimming
ShortFiles == {f \in DOMAIN Files : StrLen(StrStrip(Files[f])) < 50}
EmptyFiles == {f \in DOMAIN Files : StrLen(StrStrip(StrSlice(Files[f], 0, 2000))) < 100}

\* C14: index_document, given a file the converter reads, returns the
\* extraction-error outcome exactly when the text has fewer than 50 characters
\* after trimming (none included), and the distinct empty-document outcome
\* exactly when a longer text yields no chunk (its first window has fewer
\* than 100 characters after trimming); in both cases the call sends nothing
\* to the embedding service and leaves the directory and the table untouched.
C14_RejectsBeforeEmbedding ==
    [][(ret'.op = Indexed /\ PathExists(ret'.file) /\ ret'.cause # "ConversionError") =>
          LET short == Absolute(ret'.file) \in ShortFiles
              empty == Absolute(ret'.file) \in EmptyFiles
          IN  /\ ret'.kind = "no_text" <=> short
              /\ ret'.kind = "no_chunks" <=> (~short /\ empty)
              /\ ret'.kind \in {"no_text", "no_chunks"} =>
                    /\ ret'.calls = <<>>
                    /\ dbDir' = dbDir
                    /\ documents' = documents]_vars

C14_Witness ==
    /\ ret.op = Indexed /\ ret.kind = "no_chunks" /\ ret.calls = <<>>
    /\ ret.file = <<"note.txt">>
    /\ dbDir /\ documents.exists /\ Len(documents.rows) = 1

(***************************************************************************)
(* The chunker step by step: the constructor, then chunk_text one loop     *)
(* iteration at a time, for parameters of any sign and order               *)
(***************************************************************************)
LoopTexts ==
    {<<>>, <<Run("a", 99)>>, <<Run("a", 150)>>, <<Run("a", 500)>>,
     <<Run("a", 2300)>>, <<Run("a", 150), Run(WS, 200), Run("a", 150)>>}

LoopConfigs ==
    Configs \cup {[chunk_size |-> 100, overlap |-> 100],
                  [chunk_size |-> 1000, overlap |-> 1100],
                  [chunk_size |-> 150, overlap |-> -50]}

ChunkerLoopInit ==
    /\ EmbedderIdle
    /\ KbIdle
    /\ ConcIdle
    /\ UiIdle
    /\ ckText \in LoopTexts
    /\ ckCfg \in LoopConfigs
    /\ ckOut = <<>>
    /\ ckPc = "new"
    /\ ckLoop = [start |-> 0, chunk_idx |-> 0]
    /\ ckPrev = <<>>

\* DocumentChunker.__init__: the two parameters are stored as given
NewChunker ==
    /\ ckPc = "new"
    /\ ckPc' = "constructed"
    /\ UNCHANGED <<ckText, ckCfg, ckOut, ckLoop, ckPrev, emVars, kbVars, ccVars, uiVars>>

\* chunk_text up to the loop: chunks = [], start = 0, chunk_idx = 0; called
\* on the chunker just constructed, or again with the same text and source
EnterChunkText ==
    /\ ckPc \in {"constructed", "returned"}
    /\ Len(ckPrev) < MaxCalls
    /\ ckOut' = <<>>
    /\ ckLoop' = [start |-> 0, chunk_idx |-> 0]
    /\ ckPc' = "while"
    /\ UNCHANGED <<ckText, ckCfg, ckPrev, emVars, kbVars, ccVars, uiVars>>

\* the window of the iteration at hand
LoopEnd == ckLoop.start + ckCfg.chunk_size
LoopWindow == StrSlice(ckText, ckLoop.start, LoopEnd)

\* the iteration with "start += self.chunk_size - self.overlap" forgotten
WhileAppend_start_kept ==
    /\ ckPc = "while"
    /\ ckLoop.start < StrLen(ckText)
    /\ ~(StrLen(StrStrip(LoopWindow)) < MIN_CHUNK_CHARS)
    /\ Len(ckOut) < MaxChunks
    /\ ckOut' = Append(ckOut, [text |-> StrStrip(LoopWindow),
                               source |-> CkSource,
                               chunk_index |-> ckLoop.chunk_idx,
                               char_start |-> ckLoop.start,
                               char_end |-> LoopEnd])
    /\ ckLoop' = [start |-> ckLoop.start,
                  chunk_idx |-> ckLoop.chunk_idx + 1]
    /\ UNCHANGED <<ckText, ckCfg, ckPc, ckPrev, emVars, kbVars, ccVars, uiVars>>

\* one iteration that appends a chunk and moves the window
WhileAppend ==
    /\ ckPc = "while"
    /\ ckLoop.start < StrLen(ckText)
    /\ ~(StrLen(StrStrip(LoopWindow)) < MIN_CHUNK_CHARS)
    /\ Len(ckOut) < MaxChunks
    /\ ckOut' = Append(ckOut, [text |-> StrStrip(LoopWindow),
                               source |-> CkSource,
                               chunk_index |-> ckLoop.chunk_idx,
                               char_start |-> ckLoop.start,
                               char_end |-> LoopEnd])
    /\ ckLoop' = [start |-> ckLoop.start + ckCfg.chunk_size - ckCfg.overlap,
                  chunk_idx |-> ckLoop.chunk_idx + 1]
    /\ UNCHANGED <<ckText, ckCfg, ckPc, ckPrev, emVars, kbVars, ccVars, uiVars>>

\* the iteration that meets a tiny window: break, then return chunks
WhileBreak ==
    /\ ckPc = "while"
    /\ ckLoop.start < StrLen(ckText)
    /\ StrLen(StrStrip(LoopWindow)) < MIN_CHUNK_CHARS
    /\ ckPc' = "returned"
    /\ ckPrev' = Append(ckPrev, ckOut)
    /\ UNCHANGED <<ckText, ckCfg, ckOut, ckLoop, emVars, kbVars, ccVars, uiVars>>

\* the loop condition fails: return chunks
WhileExit ==
    /\ ckPc = "while"
    /\ ~(ckLoop.start < StrLen(ckText))
    /\ ckPc' = "returned"
    /\ ckPrev' = Append(ckPrev, ckOut)
    /\ UNCHANGED <<ckText, ckCfg, ckOut, ckLoop, emVars, kbVars, ccVars, uiVars>>

ChunkerLoopNext ==
    NewChunker \/ EnterChunkText \/ WhileAppend \/ WhileBreak \/ WhileExit

SpecChunkerLoop == ChunkerLoopInit /\ [][ChunkerLoopNext]_vars

\* the same, with a call of chunk_text that is under way going on: Python
\* runs the loop until its condition fails or it breaks
SpecChunkerLoopFair ==
    SpecChunkerLoop /\ WF_vars(WhileAppend \/ WhileBreak \/ WhileExit)

(***************************************************************************)
(* Properties of the chunker step by step (SpecChunkerLoop)                *)
(***************************************************************************)
ValidConfig == 0 <= ckCfg.overlap /\ ckCfg.overlap < ckCfg.chunk_size

\* C15 as stated: a DocumentChunker whose parameters violate
\* 0 <= overlap < chunk_size fails with a ConfigurationError when it is
\* constructed or used: it never enters the chunking loop, appends no chunk
\* and returns no list.
C15_Original ==
    ~ValidConfig =>
        /\ ckPc \in {"new", "constructed", "ConfigurationError"}
        /\ ckOut = <<>>

\* C16 as stated: an index_document call that returns anything but success
\* leaves the knowledge base as it was: the table and the directory that
\* holds it.
C16_Original ==
    [][(ret'.op = Indexed /\ ret'.kind # "ok") =>
          documents' = documents /\ dbDir' = dbDir]_vars

\* C16 amended: an index_document call that returns anything but success
\* leaves the "documents" table exactly as it was, and no call changes the
\* state of the chunker or of the embedder; the directory of the knowledge
\* base, though, is created by the first call that gets as far as the storage
\* engine (the embeddings are made), even when that call then fails to create
\* the table and returns an error.
C16_ErrorKeepsRecords ==
    [][ret'.op = Indexed =>
          /\ ret'.kind # "ok" => documents' = documents
          /\ dbDir' # dbDir =>
                /\ ~dbDir /\ dbDir' /\ ret'.calls # <<>>
                /\ \/ ret'.kind = "ok"
                   \/ ret'.kind = "error" /\ ret'.cause = "StorageError: create_table"
          /\ UNCHANGED <<ckVars, emVars, ccVars, uiVars>>]_vars

C16_Witness ==
    /\ ret.op = Indexed /\ ret.kind = "error"
    /\ ret.cause = "StorageError: create_table"
    /\ dbDir /\ ~documents.exists

\* the return statements of each tool, by kind
ReturnKinds ==
    Indexed  :> {"file_missing", "no_text", "no_chunks", "ok", "error"} @@
    Searched :> {"kb_not_found", "no_documents", "no_results", "found", "error"} @@
    Listed   :> {"empty", "stats", "error"}

\* what the converter, the embedding service and the storage engine raise
FailureCauses ==
    {"ConversionError", SvcError, "StorageError: connect",
     "StorageError: open_table", "StorageError: add",
     "StorageError: create_table", "StorageError: search",
     "StorageError: to_pandas", "Table documents was not found",
     "Table documents already exists", "SchemaError: vector dimension",
     "SchemaError: query vector dimension"}

\* C17: none of the three tools raises to its caller: every call ends in one
\* of the tool's return statements, and a failure of the converter, of the
\* embedding service or of the storage engine that reaches the outer handler
\* comes back as the error result naming its cause.
C17_NeverRaises ==
    ret.op # "none" =>
        /\ ret.kind \in ReturnKinds[ret.op]
        /\ ret.kind = "error" <=> ret.cause # ""
        /\ ret.cause # "" => ret.cause \in FailureCauses

C17_Witness ==
    /\ ret.op = Indexed /\ ret.kind = "error" /\ ret.cause = SvcError
    /\ Len(ret.calls) = 2
    /\ documents.exists

\* C18 as stated: while the "documents" table exists, search_knowledge_base
\* and get_indexed_documents answer a storage failure with the error outcome
\* carrying its cause: neither returns an index-absent or an empty outcome.
C18_Original ==
    (ret.op \in {Searched, Listed} /\ documents.exists) =>
        ret.kind \notin AbsentKinds \cup {"empty"}

EmptyTable == [exists |-> TRUE, rows |-> <<>>]

\* C19: an index_document call made while no "documents" table exists does
\* not fail for the lack of it: it fails only when the converter, the
\* embedding service, the connection or the creation of the table fails, and
\* otherwise it creates the table from its batch, leaving what appending that
\* batch to an existing, empty table leaves.
C19_CreatesFromFirstBatch ==
    [][(ret'.op = Indexed /\ ~documents.exists) =>
          /\ ret'.kind = "error" =>
                ret'.cause \in {"ConversionError", SvcError, "StorageError: connect",
                                "StorageError: create_table"}
          /\ ret'.kind # "ok" => ~documents'.exists
          /\ ret'.kind = "ok" =>
                /\ ret'.written # <<>>
                /\ Len(ret'.written) = ret'.n
                /\ documents' = [exists |-> TRUE, rows |-> ret'.written]
                /\ documents' = table_add(EmptyTable, ret'.written, "none").value]_vars

C19_Witness ==
    /\ ret.op = Indexed /\ ret.kind = "ok" /\ ret.file = <<"two.txt">>
    /\ hist.ok = [f \in DOMAIN Files |-> IF f = TwoTxt THEN <<2>> ELSE <<>>]
    /\ documents.exists /\ documents.rows = ret.written
    /\ Len(ret.written) = 2
    /\ ret.written[2].chunk_index = 1

(***************************************************************************)
(* Properties of the embedder's failures (SpecEmbedder)                    *)
(***************************************************************************)
EmFails(i) == emSvc[<<emTexts[i], emTask>>].fail

\* the number of texts generate_batch_embeddings gets to: all of them, or
\* those up to the first one the service fails on
EmReached ==
    LET failing == {i \in 1..Len(emTexts) : EmFails(i)}
    IN  IF failing = {} THEN Len(emTexts)
        ELSE CHOOSE i \in failing : \A j \in failing : i <= j

\* C20: a failure of the embedding service reaches the caller of
\* generate_embedding and of generate_batch_embeddings as the service's own
\* exception and nothing is tried again: generate_embedding sends one request
\* per call, and generate_batch_embeddings sends one request per text, in
\* order, up to and including the first failing one, and none after it.
C20_FailurePropagatesNoRetry ==
    emPc = "done" =>
        /\ \A i \in 1..Len(emTexts) :
                /\ EmSingle(i).calls = <<Request(emSelf.model, emTexts[i], emTask,
                                                 emSelf.dimension)>>
                /\ EmSingle(i).raised <=> EmFails(i)
                /\ EmSingle(i).raised => EmSingle(i).cause = SvcError
        /\ Len(emOut.calls) = EmReached
        /\ \A i \in 1..EmReached : emOut.calls[i] = EmSingle(i).calls[1]
        /\ emOut.raised <=> \E i \in 1..Len(emTexts) : EmFails(i)
        /\ emOut.raised => emOut.cause = SvcError

C20_Witness ==
    /\ emPc = "done" /\ emOut.raised /\ emOut.cause = SvcError
    /\ Len(emTexts) = 3 /\ Len(emOut.calls) = 2
    /\ ~EmFails(1) /\ EmFails(2) /\ ~EmFails(3)
    /\ emOut.calls[2].content = emTexts[2]

\* C22: for every text and every configuration with 0 <= overlap <
\* chunk_size, a call of chunk_text terminates: while it runs, start is the
\* number of chunks made times the step and has passed the end of the text by
\* less than one step, and the call comes to its return; and the calls made
\* with the same text, source, chunk_size and overlap all return the same
\* list.
C22_TerminatesDeterministic ==
    /\ [](ValidConfig =>
            /\ ckPc = "while" =>
                    /\ ckLoop.start = Len(ckOut) * (ckCfg.chunk_size - ckCfg.overlap)
                    /\ ckLoop.start < StrLen(ckText) + ckCfg.chunk_size - ckCfg.overlap
            /\ \A i, j \in 1..Len(ckPrev) : ckPrev[i] = ckPrev[j])
    /\ (ValidConfig /\ ckPc = "while") ~> (ckPc = "returned")

C22_Witness ==
    /\ ValidConfig /\ ckPc = "returned"
    /\ Len(ckPrev) = 2 /\ ckPrev[2] = ckOut
    /\ Len(ckOut) = 15

(***************************************************************************)
(* Properties of the knowledge base, continued (Spec)                      *)
(***************************************************************************)
\* the chunks of each file under the default configuration
FileChunks ==
    [f \in DOMAIN Files |-> chunk_text(Files[f], f, 2000, 200)]

\* C23: a successful index_document call on a document of n chunks appends
\* exactly n records after those already stored and reports n; it asks the
\* service once per chunk, in order and in DOCUMENT mode, and the i-th
\* appended record carries chunk i's text, the absolute path as source,
\* chunk i's chunk_index, char_start and char_end, and the vector the service
\* answered for chunk i's text.
C23_RecordsOfChunks ==
    [][(ret'.op = Indexed /\ ret'.kind = "ok") =>
          LET src == Absolute(ret'.file)
              chunks == FileChunks[src]
              n == Len(chunks)
              old == Len(documents.rows)
          IN  /\ n >= 1 /\ ret'.n = n
              /\ Len(documents'.rows) = old + n
              /\ SubSeq(documents'.rows, 1, old) = documents.rows
              /\ Len(ret'.calls) = n
              /\ \A i \in 1..n :
                    /\ ret'.calls[i] = Request("gemini-embedding-001", chunks[i].text,
                                               "RETRIEVAL_DOCUMENT", 768)
                    /\ documents'.rows[old + i] =
                            [text |-> chunks[i].text,
                             vector |-> Vec(768, ret'.answers[<<chunks[i].text,
                                                   "RETRIEVAL_DOCUMENT">>].x),
                             source |-> src,
                             chunk_index |-> i - 1,
                             char_start |-> chunks[i].char_start,
                             char_end |-> chunks[i].char_end]]_vars

C23_Witness ==
    /\ ret.op = Indexed /\ ret.kind = "ok" /\ ret.file = <<"two.txt">>
    /\ ret.n = 2 /\ Len(documents.rows) = 3
    /\ documents.rows[1].source = OneTxt
    /\ documents.rows[2].source = TwoTxt /\ documents.rows[3].source = TwoTxt
    /\ documents.rows[2].vector # documents.rows[3].vector
    /\ documents.rows[3].char_start = 1800

\* C24 as stated: with the "documents" table in place, an index_document call
\* whose write fails returns the error of the failed step (the add, or the
\* opening of the table before it) and never one that comes from creating
\* the table: creation is attempted only when the table is absent.
C24_Original ==
    (ret.op = Indexed /\ ret.kind = "error" /\ documents.exists) =>
        ret.cause \in {"ConversionError", SvcError, "StorageError: connect",
                       "StorageError: open_table", "StorageError: add",
                       "SchemaError: vector dimension"}

\* C27: search_knowledge_base and get_indexed_documents never modify the
\* knowledge base: a step of either leaves every record as it was, and leaves
\* an absent storage location and an absent collection absent.
C27_ReadToolsLeaveStorage ==
    [][ret'.op \in {Searched, Listed} =>
            /\ documents' = documents
            /\ dbDir' = dbDir]_vars

\* a search answered on a storage location that has no collection
C27_Witness ==
    /\ ret.op = Searched
    /\ ret.kind = "no_documents"
    /\ dbDir
    /\ ~documents.exists

(***************************************************************************)
(* Two index_document calls interleaving on one storage location.  Each    *)
(* call is split at its storage operations (lines 173, 177, 178, 181);     *)
(* what comes before them (lines 135-170) touches no shared state and is   *)
(* one step.  Each storage operation is atomic, as LanceDB commits are.    *)
(***************************************************************************)
ConcurrentInit ==
    /\ ChunkerIdle
    /\ EmbedderIdle
    /\ KbIdle
    /\ ConcIdle
    /\ UiIdle

\* lines 135-170: the call reads, chunks and embeds its document; a call that
\* stops there returns without having touched the storage
CcPrepare(p) ==
    /\ proc[p].pc = "idle"
    /\ \E file_path \in InputPaths :
       \E svc \in [IndexKeys(file_path) -> SvcAnswers] :
       \E r \in {index_document(file_path, [dbDir |-> FALSE, documents |-> NoTable],
                                svc, "none")} :
            proc' = [proc EXCEPT ![p] =
                        IF r.ret.kind = "ok"
                        THEN [@ EXCEPT !.pc = "connect", !.data = r.ret.written,
                                       !.out = [r.ret EXCEPT !.kind = "running",
                                                             !.written = <<>>]]
                        ELSE [@ EXCEPT !.pc = "done", !.out = r.ret]]
    /\ UNCHANGED <<ckVars, emVars, kbVars, uiVars>>

\* line 173
CcConnect(p) ==
    /\ proc[p].pc = "connect"
    /\ \E fault \in {"none", "connect"} :
       \E db \in {connect(dbDir, fault)} :
            IF db.raised
            THEN /\ proc' = [proc EXCEPT ![p].pc = "done",
                                         ![p].out = except_Exception(@, db.cause)]
                 /\ UNCHANGED dbDir
            ELSE /\ proc' = [proc EXCEPT ![p].pc = "open_table"]
                 /\ dbDir' = db.value
    /\ UNCHANGED <<documents, ret, hist, ckVars, emVars, uiVars>>

\* line 177
CcOpenTable(p) ==
    /\ proc[p].pc = "open_table"
    /\ \E fault \in {"none", "open_table"} :
       \E table \in {open_table(documents, fault)} :
            proc' = [proc EXCEPT ![p].pc = IF table.raised THEN "create_table"
                                           ELSE "add",
                                 ![p].found = ~table.raised]
    /\ UNCHANGED <<ckVars, emVars, kbVars, uiVars>>

\* line 178, and line 185 after it
CcAdd(p) ==
    /\ proc[p].pc = "add"
    /\ \E fault \in {"none", "add"} :
       \E added \in {table_add(documents, proc[p].data, fault)} :
            IF added.raised
            THEN /\ proc' = [proc EXCEPT ![p].pc = "create_table"]
                 /\ UNCHANGED documents
            ELSE /\ proc' = [proc EXCEPT ![p].pc = "done",
                                         ![p].out = [@ EXCEPT !.kind = "ok",
                                                              !.written = proc[p].data]]
                 /\ documents' = added.value
    /\ UNCHANGED <<dbDir, ret, hist, ckVars, emVars, uiVars>>

\* line 181, and line 185 after it
CcCreateTable(p) ==
    /\ proc[p].pc = "create_table"
    /\ \E fault \in {"none", "create_table"} :
       \E table \in {create_table(documents, proc[p].data, fault)} :
            IF table.raised
            THEN /\ proc' = [proc EXCEPT ![p].pc = "done",
                                         ![p].out = except_Exception(@, table.cause)]
                 /\ UNCHANGED documents
            ELSE /\ proc' = [proc EXCEPT ![p].pc = "done",
                                         ![p].out = [@ EXCEPT !.kind = "ok",
                                                              !.written = proc[p].data]]
                 /\ documents' = table.value
    /\ UNCHANGED <<dbDir, ret, hist, ckVars, emVars, uiVars>>

ConcurrentNext ==
    \E p \in Procs :
        \/ CcPrepare(p)
        \/ CcConnect(p)
        \/ CcOpenTable(p)
        \/ CcAdd(p)
        \/ CcCreateTable(p)

SpecConcurrent == ConcurrentInit /\ [][ConcurrentNext]_vars

\* the calls that have reported success
CcSucceeded == {p \in Procs : proc[p].pc = "done" /\ proc[p].out.kind = "ok"}

\* C26: when two index_document calls interleave on a location that has no
\* "documents" collection yet, the collection holds, at every moment, exactly
\* the batches of the calls that have reported success, each whole and
\* unchanged, one after the other: no reported batch is lost or overwritten
\* by the other call's create-or-append step.
C26_NoReportedBatchLost ==
    \/ CcSucceeded = {} /\ documents.rows = <<>>
    \/ \E p \in Procs :
            /\ CcSucceeded = {p}
            /\ documents.exists
            /\ documents.rows = proc[p].data
    \/ \E p, q \in Procs :
            /\ p # q
            /\ CcSucceeded = {p, q}
            /\ documents.exists
            /\ documents.rows = proc[p].data \o proc[q].data

\* both calls found no collection; one created it, the other's create was
\* refused and it reported the error
C26_Witness ==
    \E p, q \in Procs :
        /\ proc[p].pc = "done" /\ proc[q].pc = "done"
        /\ ~proc[p].found /\ ~proc[q].found
        /\ proc[p].out.kind = "ok"
        /\ proc[q].out.kind = "error"
        /\ proc[q].out.cause = "Table documents already exists"
        /\ proc[q].data # <<>>
        /\ documents.rows = proc[p].data

(***************************************************************************)
(* The chat UI, one step per script run of src/app.py that changes the     *)
(* session state.  The language model is outside the repository: agent.run *)
(* answers with a response or raises.                                      *)
(***************************************************************************)
\* the longest history a chat turn is started from
MaxHistory == 12

UserIds == {"user_fenil", "user_guest"}
UserInputs == {"question"}
Answers == {"answer 1", "answer 2"}
Responses == {Ret(a, <<>>) : a \in Answers} \cup {Raise("ModelError", <<>>)}
SummaryResponses == {Ret("summary text", <<>>), Raise("ModelError", <<>>)}

ChatInit ==
    /\ ChunkerIdle
    /\ EmbedderIdle
    /\ KbIdle
    /\ ConcIdle
    /\ UiIdle

\* lines 426-459: the user message is appended, the agent answers, the answer
\* is appended and the history compressed; when agent.run raises the script
\* run ends there, with the user message in the history
ChatTurn ==
    /\ Len(chat_history) <= MaxHistory
    /\ \E user_input \in UserInputs, response \in Responses,
          summary_response \in SummaryResponses :
        LET asked == Append(chat_history, [role |-> "user", content |-> user_input])
            answered == Append(asked, [role |-> "assistant",
                                       content |-> response.value,
                                       tool_calls |-> <<>>])
        IN  IF response.raised
            THEN /\ chat_history' = asked
                 /\ event' = [kind |-> "turn_aborted"]
            ELSE /\ chat_history' = compress_chat_history(summary_response, answered,
                                        MAX_HISTORY_LENGTH, COMPRESS_KEEP_RECENT)
                 /\ event' = [kind |-> "turn",
                              summary |-> IF Len(answered) <= MAX_HISTORY_LENGTH
                                          THEN "not called"
                                          ELSE IF summary_response.raised THEN "failed"
                                          ELSE "succeeded"]
    /\ UNCHANGED <<user_id, agent, ckVars, emVars, kbVars, ccVars>>

\* lines 200-233: a new user ID is typed into the sidebar
UserIdChange ==
    /\ \E new_user_id \in UserIds :
        /\ new_user_id # user_id
        /\ user_id' = new_user_id
        /\ agent' = Agent(new_user_id, UserChangeTools)
    /\ event' = [kind |-> "user_id_change"]
    /\ UNCHANGED <<chat_history, ckVars, emVars, kbVars, ccVars>>

\* lines 246-265
StartNewSession ==
    /\ chat_history' = <<>>
    /\ event' = [kind |-> "new_session"]
    /\ UNCHANGED <<user_id, agent, ckVars, emVars, kbVars, ccVars>>

\* lines 376-378
ClearChatHistory ==
    /\ chat_history' = <<>>
    /\ event' = [kind |-> "clear"]
    /\ UNCHANGED <<user_id, agent, ckVars, emVars, kbVars, ccVars>>

ChatNext == ChatTurn \/ UserIdChange \/ StartNewSession \/ ClearChatHistory

SpecChat == ChatInit /\ [][ChatNext]_vars

\* the history of a turn after its two messages were appended, before line 452
Answered == chat_history \o SubSeq(chat_history', Len(chat_history') - 1,
                                   Len(chat_history'))

\* C28: after every completed chat turn whose summarization call did not fail
\* the history holds at most MAX_HISTORY_LENGTH messages: it is the history
\* with the turn's two messages when that has at most MAX_HISTORY_LENGTH
\* messages, and otherwise one summary message followed by exactly the last
\* COMPRESS_KEEP_RECENT messages, in their order.
C28_HistoryBounded ==
    [][(event'.kind = "turn" /\ event'.summary # "failed") =>
            /\ Len(chat_history') <= 10
            /\ IF Len(Answered) <= 10
               THEN chat_history' = Answered /\ event'.summary = "not called"
               ELSE /\ event'.summary = "succeeded"
                    /\ Len(chat_history') = 1 + 4
                    /\ chat_history'[1].role = "summary"
                    /\ \A i \in 1..4 :
                            chat_history'[1 + i] = Answered[Len(Answered) - 4 + i]]_vars

\* a turn that took the history past ten messages and compressed it, the two
\* answers kept from before the turn being different ones
C28_Witness ==
    /\ event.kind = "turn"
    /\ event.summary = "succeeded"
    /\ Len(chat_history) = 5
    /\ chat_history[1].role = "summary"
    /\ chat_history[3].content # chat_history[5].content

KbTools == {"index_document", "search_knowledge_base", "get_indexed_documents"}

\* C29: after any sequence of user-ID changes the session's agent is still
\* configured with the three knowledge-base tools index_document,
\* search_knowledge_base and get_indexed_documents, as it is at session start.
C29_Original ==
    \A tool \in KbTools : \E i \in 1..Len(agent.tools) : agent.tools[i] = tool

====
